---- MODULE Spec2Model ----
(***************************************************************************)
(* Model of the word-syllable-game backend (src/app.py, src/database.py):  *)
(* the three tables words / daily_puzzles / scores, the database.py        *)
(* functions as operators over them, and the four API handlers of app.py.  *)
(* Text values (dates, id lists, syllable strings, nicknames) are          *)
(* sequences of one-character strings, so that formatting, splitting,      *)
(* joining and SQL text comparison are computed and not assumed.           *)
(***************************************************************************)
EXTENDS Integers, Sequences, FiniteSets, TLC

VARIABLES
    today,          \* the wall clock's calendar day, as date.today() reads it
    last_used,      \* words.last_used_date, per word id (text or NULL)
    daily_puzzles,  \* table daily_puzzles: rows [puzzle_date, word_ids]
    scores,         \* table scores: rows [puzzle_date, nickname, time_seconds]
    pc,             \* per request worker: position inside get_today_puzzle
    today_date,     \* per worker: local today_date of get_today_puzzle
    word_ids,       \* per worker: local word_ids of get_today_puzzle
    fresh,          \* per worker: the running request selected new words
    faulted,        \* per worker: a storage call of the running request failed
    last_resp,      \* the last answer of get_today_puzzle a client kept
    http            \* the last answer of the check / scores endpoints

vars == <<today, last_used, daily_puzzles, scores, pc, today_date, word_ids,
          fresh, faulted, last_resp, http>>

----------------------------------------------------------------------------
(* Bounds of the model and constants of the program                        *)

NumWords == 6

Horizon == 0

MaxScores == 11

MaxAttemptLen == 3

FaultScores == 1

InvDays == 3

PuzzleCount == 5

ExcludeDays == 30

ScoreLimit == 10

DateWidth == 3

Procs == {"w1", "w2"}

Words == 1..NumWords

FirstDay == ExcludeDays

StartDay == FirstDay + ExcludeDays - 1

MaxDay == FirstDay + ExcludeDays + Horizon

\* a small count and the longest window the inventory of Words covers
InvCount == 2

InvWindow == NumWords \div InvCount

InvLastDay == StartDay + InvDays

\* SQL NULL and Python None; no text value stored by the program is empty
NULL == <<>>

----------------------------------------------------------------------------
(* Text helpers: Python str methods and SQLite text comparison             *)

Digits == <<"0", "1", "2", "3", "4", "5", "6", "7", "8", "9">>

DigitSet == {Digits[i] : i \in 1..10}

DigitVal(c) == (CHOOSE i \in 1..10 : Digits[i] = c) - 1

\* code point order of the characters the model uses
CharRank(c) ==
    CASE c = " " -> 0
      [] c = "," -> 1
      [] c = "-" -> 2
      [] c \in DigitSet -> 3 + DigitVal(c)
      [] OTHER -> 20

RECURSIVE Str(_)
Str(n) == IF n < 10 THEN <<Digits[n + 1]>>
          ELSE Str(n \div 10) \o <<Digits[(n % 10) + 1]>>

RECURSIVE ZeroPad(_, _)
ZeroPad(s, width) == IF Len(s) >= width THEN s ELSE ZeroPad(<<"0">> \o s, width)

\* strftime('%Y-%m-%d'): fixed width, zero padded, most significant first
Strftime(d) == ZeroPad(Str(d), DateWidth)

IsDigit(s) == Len(s) > 0 /\ \A i \in 1..Len(s) : s[i] \in DigitSet

RECURSIVE IntOf(_)
IntOf(s) == IF Len(s) = 0 THEN 0
            ELSE 10 * IntOf(SubSeq(s, 1, Len(s) - 1)) + DigitVal(s[Len(s)])

RECURSIVE Split(_, _)
Split(s, sep) ==
    IF \A i \in 1..Len(s) : s[i] # sep THEN <<s>>
    ELSE LET k == CHOOSE i \in 1..Len(s) :
                     s[i] = sep /\ \A j \in 1..(i - 1) : s[j] # sep
         IN  <<SubSeq(s, 1, k - 1)>> \o Split(SubSeq(s, k + 1, Len(s)), sep)

RECURSIVE Join(_, _)
Join(parts, sep) ==
    IF Len(parts) = 0 THEN <<>>
    ELSE IF Len(parts) = 1 THEN parts[1]
    ELSE parts[1] \o <<sep>> \o Join(Tail(parts), sep)

RECURSIVE LStrip(_)
LStrip(s) == IF Len(s) > 0 /\ s[1] = " " THEN LStrip(Tail(s)) ELSE s

RECURSIVE RStrip(_)
RStrip(s) == IF Len(s) > 0 /\ s[Len(s)] = " "
             THEN RStrip(SubSeq(s, 1, Len(s) - 1)) ELSE s

Strip(s) == RStrip(LStrip(s))

\* SQLite's comparison a <= b of two TEXT values (BINARY collation)
RECURSIVE TextLeq(_, _)
TextLeq(a, b) ==
    IF Len(a) = 0 THEN TRUE
    ELSE IF Len(b) = 0 THEN FALSE
    ELSE IF a[1] = b[1] THEN TextLeq(Tail(a), Tail(b))
    ELSE CharRank(a[1]) < CharRank(b[1])

Range(s) == {s[i] : i \in 1..Len(s)}

RECURSIVE Ascending(_)
Ascending(S) == IF S = {} THEN <<>>
                ELSE LET m == CHOOSE x \in S : \A y \in S : x <= y
                     IN  <<m>> \o Ascending(S \ {m})

Min(a, b) == IF a <= b THEN a ELSE b

----------------------------------------------------------------------------
(* Seed data of table words (id, syllables); hint and word text are not    *)
(* read by any modelled decision                                            *)

SeedSyllables == <<
    <<"t", "e", "s", "-", "t", "o", "-", "w", "y">>,
    <<"p", "r", "o", "-", "g", "r", "a", "m">>,
    <<"s", "y", "-", "l", "a", "-", "b", "a">>,
    <<"g", "r", "a">>,
    <<"j", "e", "-", "z", "y", "k">>,
    <<"p", "y", "-", "t", "h", "o", "n">>,
    <<"l", "a", "t", "-", "w", "y">> >>

Syllables(w) == SeedSyllables[((w - 1) % Len(SeedSyllables)) + 1]

\* outcome of one storage call: it works, the statement raises sqlite3.Error
\* inside the function's try, or get_db_connection raises before the try
Faults == {"ok", "query_error", "connect_error"}

----------------------------------------------------------------------------
(* database.py                                                              *)

\* a variant comparing strictly: a < b
SqlLt(a, b) == a # NULL /\ a # b /\ TextLeq(a, b)

\* SQL a <= b: not true when a is NULL
SqlLeq(a, b) == a # NULL /\ TextLeq(a, b)

\* WHERE last_used_date IS NULL OR last_used_date <= cutoff_date_str
Eligible(lu, clock, days) ==
    {w \in Words : lu[w] = NULL \/ SqlLeq(lu[w], Strftime(clock - days))}

\* ORDER BY RANDOM(): every set of rows is drawn; the model lists a drawn
\* set in one order, by id
RandomOrders(S) == {Ascending(S)}

\* the lists of word ids get_words_for_puzzle may return
get_words_for_puzzle(lu, clock, count, days, f) ==
    IF f = "query_error" THEN {<<>>}
    ELSE LET E == Eligible(lu, clock, days)
             n == Min(count, Cardinality(E))
         IN  UNION {RandomOrders(S) :
                      S \in {T \in SUBSET E : Cardinality(T) = n}}

RECURSIVE ExistingIds(_)
ExistingIds(ids) ==
    IF Len(ids) = 0 THEN <<>>
    ELSE (IF ids[1] \in Words THEN <<ids[1]>> ELSE <<>>) \o ExistingIds(Tail(ids))

\* the rows found, in the order of the ids asked for
get_word_details(ids, f) ==
    IF Len(ids) = 0 \/ f = "query_error" THEN <<>>
    ELSE LET found == ExistingIds(ids)
         IN  [i \in 1..Len(found) |->
                 [id |-> found[i], syllables |-> Syllables(found[i])]]

\* a variant that stamps the day before the puzzle's date
update_last_used_date_day_before(lu, ids, puzzle_date, f) ==
    IF Len(ids) = 0 \/ f = "query_error" THEN lu
    ELSE [w \in Words |->
             IF w \in Range(ids) THEN Strftime(puzzle_date - 1) ELSE lu[w]]

update_last_used_date(lu, ids, puzzle_date, f) ==
    IF Len(ids) = 0 \/ f = "query_error" THEN lu
    ELSE [w \in Words |->
             IF w \in Range(ids) THEN Strftime(puzzle_date) ELSE lu[w]]

MatchingRows(tbl, date_str) ==
    SelectSeq(tbl, LAMBDA r : r.puzzle_date = date_str)

get_daily_puzzle_unpadded(tbl, puzzle_date, f) ==
    IF f = "query_error" THEN NULL
    ELSE LET rows == MatchingRows(tbl, Str(puzzle_date))
         IN  IF Len(rows) = 0 THEN NULL ELSE rows[1].word_ids

\* a variant that never finds the stored row
get_daily_puzzle_blind(tbl, puzzle_date, f) == NULL

\* cursor.fetchone(): the word_ids text of the first matching row, or None
get_daily_puzzle(tbl, puzzle_date, f) ==
    IF f = "query_error" THEN NULL
    ELSE LET rows == MatchingRows(tbl, Strftime(puzzle_date))
         IN  IF Len(rows) = 0 THEN NULL ELSE rows[1].word_ids

\* ','.join(map(str, word_ids_list))
IdsToStr(ids) == Join([i \in 1..Len(ids) |-> Str(ids[i])], ",")

RECURSIVE DigitPieces(_)
DigitPieces(pieces) ==
    IF Len(pieces) = 0 THEN <<>>
    ELSE (IF IsDigit(pieces[1]) THEN <<IntOf(pieces[1])>> ELSE <<>>)
         \o DigitPieces(Tail(pieces))

\* [int(id_str) for id_str in word_ids_str.split(',') if id_str.isdigit()]
StrToIds(s) == DigitPieces(Split(s, ","))

PlainInsert(tbl, row) == Append(tbl, row)

InsertOrIgnore(tbl, row) ==
    IF \E i \in 1..Len(tbl) : tbl[i].puzzle_date = row.puzzle_date
    THEN tbl ELSE Append(tbl, row)

\* INSERT OR REPLACE INTO daily_puzzles: the row of that date is replaced
InsertOrReplace(tbl, row) ==
    Append(SelectSeq(tbl, LAMBDA r : r.puzzle_date # row.puzzle_date), row)

save_daily_puzzle(tbl, puzzle_date, ids, f) ==
    IF f = "query_error" THEN tbl
    ELSE InsertOrReplace(tbl, [puzzle_date |-> Strftime(puzzle_date),
                               word_ids |-> IdsToStr(ids)])

----------------------------------------------------------------------------
(* app.py: get_today_puzzle, one step per storage call                      *)

NoResp == [status |-> 0, made_on |-> 0, ids |-> <<>>, fresh |-> FALSE,
           faulted |-> FALSE]

\* return jsonify(...), status: the request ends; keep says whether the
\* client keeps the answer for comparison with the next one
Respond(p, status, ids, fault, keep) ==
    LET r == [status |-> status, made_on |-> today_date[p], ids |-> ids,
              fresh |-> fresh[p], faulted |-> faulted[p] \/ fault]
    IN  /\ last_resp' = IF keep THEN r ELSE last_resp
        /\ pc' = [pc EXCEPT ![p] = "idle"]
        /\ today_date' = [today_date EXCEPT ![p] = 0]
        /\ word_ids' = [word_ids EXCEPT ![p] = <<>>]
        /\ fresh' = [fresh EXCEPT ![p] = FALSE]
        /\ faulted' = [faulted EXCEPT ![p] = FALSE]

\* an exception no handler catches (get_db_connection raised): Flask's 500
Unhandled(p, keep) ==
    /\ Respond(p, 500, <<>>, TRUE, keep)
    /\ UNCHANGED <<today, last_used, daily_puzzles, scores, http>>

Goto(p, label, fault) ==
    /\ pc' = [pc EXCEPT ![p] = label]
    /\ faulted' = [faulted EXCEPT ![p] = faulted[p] \/ fault]

\* today_date = date.today()
Begin(p) ==
    /\ pc[p] = "idle"
    /\ pc' = [pc EXCEPT ![p] = "get"]
    /\ today_date' = [today_date EXCEPT ![p] = today]
    /\ UNCHANGED <<today, last_used, daily_puzzles, scores, word_ids, fresh,
                   faulted, last_resp, http>>

\* word_ids_str = database.get_daily_puzzle(today_date); if word_ids_str: ...
ReadCache(p, f, keep) ==
    /\ pc[p] = "get"
    /\ IF f = "connect_error" THEN Unhandled(p, keep)
       ELSE LET word_ids_str == get_daily_puzzle(daily_puzzles, today_date[p], f)
            IN  /\ IF word_ids_str # NULL
                   THEN /\ word_ids' = [word_ids EXCEPT
                                           ![p] = StrToIds(word_ids_str)]
                        /\ Goto(p, "details", f # "ok")
                   ELSE /\ word_ids' = word_ids
                        /\ Goto(p, "select", f # "ok")
                /\ UNCHANGED <<today, last_used, daily_puzzles, scores,
                               today_date, fresh, last_resp, http>>

SelectWordsNoCheck(p, f, keep) ==
    /\ pc[p] = "select"
    /\ IF f = "connect_error" THEN Unhandled(p, keep)
       ELSE \E words_for_puzzle \in
                get_words_for_puzzle(last_used, today, PuzzleCount,
                                     ExcludeDays, f) :
              /\ word_ids' = [word_ids EXCEPT ![p] = words_for_puzzle]
              /\ fresh' = [fresh EXCEPT ![p] = TRUE]
              /\ Goto(p, "save", f # "ok")
              /\ UNCHANGED <<today, last_used, daily_puzzles, scores,
                             today_date, last_resp, http>>

\* words_for_puzzle = database.get_words_for_puzzle(count=5,
\* exclude_used_within_days=30); fewer than 5: the request ends with 500
SelectWords(p, f, keep) ==
    /\ pc[p] = "select"
    /\ IF f = "connect_error" THEN Unhandled(p, keep)
       ELSE \E words_for_puzzle \in
                get_words_for_puzzle(last_used, today, PuzzleCount,
                                     ExcludeDays, f) :
              IF Len(words_for_puzzle) < PuzzleCount
              THEN /\ Respond(p, 500, <<>>, f # "ok", keep)
                   /\ UNCHANGED <<today, last_used, daily_puzzles, scores, http>>
              ELSE /\ word_ids' = [word_ids EXCEPT ![p] = words_for_puzzle]
                   /\ fresh' = [fresh EXCEPT ![p] = TRUE]
                   /\ Goto(p, "save", f # "ok")
                   /\ UNCHANGED <<today, last_used, daily_puzzles, scores,
                                  today_date, last_resp, http>>

\* the same step for a puzzle of count words and a window of days, the two
\* arguments of get_words_for_puzzle
SelectWordsWith(p, count, days, f, keep) ==
    /\ pc[p] = "select"
    /\ IF f = "connect_error" THEN Unhandled(p, keep)
       ELSE \E words_for_puzzle \in
                get_words_for_puzzle(last_used, today, count, days, f) :
              IF Len(words_for_puzzle) < count
              THEN /\ Respond(p, 500, <<>>, f # "ok", keep)
                   /\ UNCHANGED <<today, last_used, daily_puzzles, scores, http>>
              ELSE /\ word_ids' = [word_ids EXCEPT ![p] = words_for_puzzle]
                   /\ fresh' = [fresh EXCEPT ![p] = TRUE]
                   /\ Goto(p, "save", f # "ok")
                   /\ UNCHANGED <<today, last_used, daily_puzzles, scores,
                                  today_date, last_resp, http>>

\* database.save_daily_puzzle(today_date, word_ids), its result ignored
SavePuzzle(p, f, keep) ==
    /\ pc[p] = "save"
    /\ IF f = "connect_error" THEN Unhandled(p, keep)
       ELSE /\ daily_puzzles' = save_daily_puzzle(daily_puzzles, today_date[p],
                                                  word_ids[p], f)
            /\ Goto(p, "stamp", f # "ok")
            /\ UNCHANGED <<today, last_used, scores, today_date, word_ids,
                           fresh, last_resp, http>>

\* database.update_last_used_date(word_ids, today_date), its result ignored
StampWords(p, f, keep) ==
    /\ pc[p] = "stamp"
    /\ IF f = "connect_error" THEN Unhandled(p, keep)
       ELSE /\ last_used' = update_last_used_date(last_used, word_ids[p],
                                                  today_date[p], f)
            /\ Goto(p, "details", f # "ok")
            /\ UNCHANGED <<today, daily_puzzles, scores, today_date, word_ids,
                           fresh, last_resp, http>>

\* word_details = database.get_word_details(word_ids) and the answer
FetchDetails(p, f, keep) ==
    /\ pc[p] = "details"
    /\ IF f = "connect_error" THEN Unhandled(p, keep)
       ELSE LET word_details == get_word_details(word_ids[p], f)
            IN  /\ IF Len(word_details) = 0
                      \/ Len(word_details) # Len(word_ids[p])
                   THEN Respond(p, 500, <<>>, f # "ok", keep)
                   ELSE Respond(p, 200,
                                [i \in 1..Len(word_details) |->
                                    word_details[i].id],
                                f # "ok", keep)
                /\ UNCHANGED <<today, last_used, daily_puzzles, scores,
                               http>>

\* midnight: date.today() returns the next day from now on
Tick ==
    /\ today < MaxDay
    /\ today' = today + 1
    /\ UNCHANGED <<last_used, daily_puzzles, scores, pc, today_date, word_ids,
                   fresh, faulted, last_resp, http>>

----------------------------------------------------------------------------
(* Initial states: a freshly seeded store, or the store one month after    *)
(* the puzzle of FirstDay was created from the first PuzzleCount words     *)

FirstIds == Ascending(1..PuzzleCount)

FreshWords == [w \in Words |-> NULL]

NoHttp == [op |-> "none", req |-> <<>>, status |-> 0, body |-> <<>>,
           faulted |-> FALSE]

InitStore ==
    /\ today = StartDay
    /\ \/ /\ last_used = FreshWords
          /\ daily_puzzles = <<>>
       \/ /\ last_used = update_last_used_date(FreshWords, FirstIds,
                                               FirstDay, "ok")
          /\ daily_puzzles = save_daily_puzzle(<<>>, FirstDay, FirstIds, "ok")
    /\ pc = [p \in Procs |-> "idle"]
    /\ today_date = [p \in Procs |-> 0]
    /\ word_ids = [p \in Procs |-> <<>>]
    /\ fresh = [p \in Procs |-> FALSE]
    /\ faulted = [p \in Procs |-> FALSE]
    /\ last_resp = NoResp
    /\ http = NoHttp

Init == InitStore /\ scores = <<>>

\* concurrent requests for today's puzzle, storage working
Next ==
    \/ Tick
    \/ \E p \in Procs : Begin(p)
    \/ \E p \in Procs : ReadCache(p, "ok", FALSE)
    \/ \E p \in Procs : SelectWords(p, "ok", FALSE)
    \/ \E p \in Procs : SavePuzzle(p, "ok", FALSE)
    \/ \E p \in Procs : StampWords(p, "ok", FALSE)
    \/ \E p \in Procs : FetchDetails(p, "ok", FALSE)

Spec == Init /\ [][Next]_vars

NoneRunning == \A q \in Procs : pc[q] = "idle"

\* one request at a time, storage working, the client keeps each answer
SeqNext ==
    \/ Tick
    \/ \E p \in Procs : NoneRunning /\ Begin(p)
    \/ \E p \in Procs : ReadCache(p, "ok", TRUE)
    \/ \E p \in Procs : SelectWords(p, "ok", TRUE)
    \/ \E p \in Procs : SavePuzzle(p, "ok", TRUE)
    \/ \E p \in Procs : StampWords(p, "ok", TRUE)
    \/ \E p \in Procs : FetchDetails(p, "ok", TRUE)

SeqSpec == Init /\ [][SeqNext]_vars

\* midnight, for as many days as the inventory is followed
TickUntil(last) ==
    /\ today < last
    /\ today' = today + 1
    /\ UNCHANGED <<last_used, daily_puzzles, scores, pc, today_date, word_ids,
                   fresh, faulted, last_resp, http>>

\* a freshly seeded store
InvInit == Init /\ daily_puzzles = <<>>

\* requests served one after the other by a single worker
Worker == "w1"

\* one request at a time over many days, puzzles of InvCount words with a
\* window of InvWindow days
InvNext ==
    \/ TickUntil(InvLastDay)
    \/ Begin(Worker)
    \/ ReadCache(Worker, "ok", FALSE)
    \/ SelectWordsWith(Worker, InvCount, InvWindow, "ok", FALSE)
    \/ SavePuzzle(Worker, "ok", FALSE)
    \/ StampWords(Worker, "ok", FALSE)
    \/ FetchDetails(Worker, "ok", FALSE)

InvSpec == InvInit /\ [][InvNext]_vars

----------------------------------------------------------------------------
(* JSON values of a request body                                            *)

Missing == [tag |-> "missing", v |-> <<>>]

IntV(n) == [tag |-> "int", v |-> n]

StrV(t) == [tag |-> "str", v |-> t]

ListV(l) == [tag |-> "list", v |-> l]

Answer(op, req, status, body, fault) ==
    [op |-> op, req |-> req, status |-> status, body |-> body,
     faulted |-> fault]

----------------------------------------------------------------------------
(* app.py: check_word_attempt                                               *)

SameSyllablesAnyOrder(attempted, correct) ==
    /\ Len(attempted) = Len(correct)
    /\ \E perm \in [1..Len(correct) -> 1..Len(correct)] :
          /\ \A i, j \in 1..Len(correct) : perm[i] = perm[j] => i = j
          /\ \A i \in 1..Len(correct) : attempted[i] = correct[perm[i]]

\* is_correct = (attempted_syllables == correct_syllables_list)
IsCorrect(attempted, correct) == attempted = correct

check_word_attempt(data, f) ==
    /\ http' =
         IF data.wordId.tag = "missing"
            \/ data.attemptedSyllables.tag = "missing"
         THEN Answer("check", data, 400, "missing data", FALSE)
         ELSE IF data.wordId.tag # "int"
         THEN Answer("check", data, 400, "invalid wordId", FALSE)
         ELSE IF data.attemptedSyllables.tag # "list"
         THEN Answer("check", data, 400, "invalid attemptedSyllables", FALSE)
         ELSE IF f = "connect_error"
         THEN Answer("check", data, 500, "internal server error", TRUE)
         ELSE LET word_details_list ==
                      get_word_details(<<data.wordId.v>>, f)
              IN  IF Len(word_details_list) = 0
                  THEN Answer("check", data, 404, "not found", f # "ok")
                  ELSE LET correct_syllables_list ==
                               Split(word_details_list[1].syllables, "-")
                       IN  Answer("check", data, 200,
                                  IF IsCorrect(data.attemptedSyllables.v,
                                               correct_syllables_list)
                                  THEN "correct" ELSE "incorrect",
                                  f # "ok")
    /\ UNCHANGED <<today, last_used, daily_puzzles, scores, pc, today_date,
                   word_ids, fresh, faulted, last_resp>>

----------------------------------------------------------------------------
(* database.py: table scores                                                *)

save_score(tbl, puzzle_date, nickname, time_seconds, f) ==
    IF f = "query_error" THEN tbl
    ELSE Append(tbl, [puzzle_date |-> Strftime(puzzle_date),
                      nickname |-> nickname,
                      time_seconds |-> time_seconds])

\* the row goes behind every row whose time is not larger
RECURSIVE InsertByTime(_, _)
InsertByTime(sorted, row) ==
    IF Len(sorted) = 0 THEN <<row>>
    ELSE IF sorted[1].time_seconds <= row.time_seconds
    THEN <<sorted[1]>> \o InsertByTime(Tail(sorted), row)
    ELSE <<row>> \o sorted

\* ORDER BY time_seconds ASC; rows of equal time stay in insertion order
RECURSIVE OrderByTime(_)
OrderByTime(rows) ==
    IF Len(rows) = 0 THEN <<>>
    ELSE InsertByTime(OrderByTime(SubSeq(rows, 1, Len(rows) - 1)),
                      rows[Len(rows)])

Take(rows, limit) == SubSeq(rows, 1, Min(limit, Len(rows)))

get_daily_scores_unordered(tbl, puzzle_date, limit, f) ==
    IF f = "query_error" THEN <<>>
    ELSE Take(SelectSeq(tbl, LAMBDA r : r.puzzle_date = Strftime(puzzle_date)),
              limit)

get_daily_scores(tbl, puzzle_date, limit, f) ==
    IF f = "query_error" THEN <<>>
    ELSE Take(OrderByTime(SelectSeq(tbl, LAMBDA r :
                                      r.puzzle_date = Strftime(puzzle_date))),
              limit)

----------------------------------------------------------------------------
(* app.py: submit_score and get_leaderboard                                 *)

ValidTimeAny(t) == t.tag = "int"

\* isinstance(time_seconds, int) and not time_seconds < 0
ValidTime(t) == t.tag = "int" /\ ~(t.v < 0)

\* isinstance(nickname, str) and nickname.strip() is not empty
ValidNickname(n) == n.tag = "str" /\ Strip(n.v) # <<>>

submit_score(data, f) ==
    IF data.nickname.tag = "missing" \/ data.timeSeconds.tag = "missing"
    THEN /\ http' = Answer("submit", data, 400, "missing data", FALSE)
         /\ UNCHANGED <<today, last_used, daily_puzzles, scores, pc,
                        today_date, word_ids, fresh, faulted, last_resp>>
    ELSE IF ~ValidNickname(data.nickname)
    THEN /\ http' = Answer("submit", data, 400, "invalid nickname", FALSE)
         /\ UNCHANGED <<today, last_used, daily_puzzles, scores, pc,
                        today_date, word_ids, fresh, faulted, last_resp>>
    ELSE IF ~ValidTime(data.timeSeconds)
    THEN /\ http' = Answer("submit", data, 400, "invalid timeSeconds", FALSE)
         /\ UNCHANGED <<today, last_used, daily_puzzles, scores, pc,
                        today_date, word_ids, fresh, faulted, last_resp>>
    ELSE /\ scores' = IF f = "connect_error" THEN scores
                      ELSE save_score(scores, today, Strip(data.nickname.v),
                                      data.timeSeconds.v, f)
         /\ http' = IF f = "ok"
                    THEN Answer("submit", data, 201, "created", FALSE)
                    ELSE Answer("submit", data, 500, "failed", TRUE)
         /\ UNCHANGED <<today, last_used, daily_puzzles, pc, today_date,
                        word_ids, fresh, faulted, last_resp>>

get_leaderboard(f) ==
    /\ http' =
         IF f = "connect_error"
         THEN Answer("leaderboard", <<>>, 500, <<>>, TRUE)
         ELSE LET scores_data ==
                      get_daily_scores(scores, today, ScoreLimit, f)
              IN  Answer("leaderboard", <<>>, 200,
                         [i \in 1..Len(scores_data) |->
                             [nickname |-> scores_data[i].nickname,
                              timeSeconds |-> scores_data[i].time_seconds]],
                         f # "ok")
    /\ UNCHANGED <<today, last_used, daily_puzzles, scores, pc, today_date,
                   word_ids, fresh, faulted, last_resp>>

----------------------------------------------------------------------------
(* Requests the model submits                                               *)

SyllablePool == {
    <<"t", "e", "s">>, <<"t", "o">>, <<"w", "y">>,
    <<"t", "o", "-", "w", "y">> }

AttemptLists == UNION {[1..k -> SyllablePool] : k \in 0..MaxAttemptLen}

CheckInputs ==
    [wordId : {Missing, StrV(<<"1">>), IntV(0), IntV(1), IntV(2),
               IntV(NumWords + 1)},
     attemptedSyllables : {Missing, StrV(<<"t", "e", "s">>)}
                          \cup {ListV(l) : l \in AttemptLists}]

ScoreInputs ==
    [nickname : {StrV(<<" ", "a", " ">>)},
     timeSeconds : {Missing, StrV(<<"1">>), IntV(-1), IntV(0), IntV(1)}]
    \cup
    [nickname : {Missing, IntV(1), StrV(<<>>), StrV(<<" ">>)},
     timeSeconds : {IntV(-1), IntV(1)}]

\* syllable attempts only: the store is never written
CheckNext == \E data \in CheckInputs : check_word_attempt(data, "ok")

CheckSpec == Init /\ [][CheckNext]_vars

\* one score of the day before may already be stored
ScoreInit ==
    /\ InitStore
    /\ scores \in {<<>>, save_score(<<>>, StartDay - 1, <<"a">>, 0, "ok")}

\* the scores stored for the current date
TodayScores == SelectSeq(scores, LAMBDA r : r.puzzle_date = Strftime(today))

ScoreNext ==
    \/ \E data \in ScoreInputs :
          Len(TodayScores) < MaxScores /\ submit_score(data, "ok")
    \/ get_leaderboard("ok")

ScoreSpec == ScoreInit /\ [][ScoreNext]_vars

FaultCheckInputs ==
    [wordId : {IntV(1), IntV(0)},
     attemptedSyllables : {ListV(Split(Syllables(1), "-"))}]

FaultScoreInputs ==
    [nickname : {StrV(<<"a">>)}, timeSeconds : {IntV(1)}]

\* one request at a time, every storage call may fail
FaultNext ==
    \/ \E p \in Procs : NoneRunning /\ Begin(p)
    \/ \E p \in Procs, f \in Faults : ReadCache(p, f, TRUE)
    \/ \E p \in Procs, f \in Faults : SelectWords(p, f, TRUE)
    \/ \E p \in Procs, f \in Faults : SavePuzzle(p, f, TRUE)
    \/ \E p \in Procs, f \in Faults : StampWords(p, f, TRUE)
    \/ \E p \in Procs, f \in Faults : FetchDetails(p, f, TRUE)
    \/ \E data \in FaultCheckInputs, f \in Faults :
          NoneRunning /\ check_word_attempt(data, f)
    \/ \E data \in FaultScoreInputs, f \in Faults :
          NoneRunning /\ Len(scores) < FaultScores /\ submit_score(data, f)
    \/ \E f \in Faults : NoneRunning /\ get_leaderboard(f)

FaultSpec == Init /\ [][FaultNext]_vars

----------------------------------------------------------------------------
(* Properties                                                               *)

RowIds(row) == Range(StrToIds(row.word_ids))

Completes(p) == pc[p] # "idle" /\ pc'[p] = "idle"

\* C1: when a request for today's puzzle was answered 200 and the next
\* request, made on the same calendar date with no request in between,
\* completes, it is answered 200 with the same set of word ids, read from the
\* stored record and not newly selected.
C1_SameWordsTwice ==
    [][\A p \in Procs :
          (Completes(p) /\ last_resp.status = 200
           /\ last_resp.made_on = today_date[p])
          => /\ last_resp'.status = 200
             /\ Range(last_resp'.ids) = Range(last_resp.ids)
             /\ ~last_resp'.fresh]_vars

C1_Witness ==
    /\ NoneRunning
    /\ last_resp.status = 200
    /\ ~last_resp.fresh
    /\ Cardinality(Range(last_resp.ids)) = PuzzleCount

\* C2: a word of the stored puzzle of date d1 is in no stored puzzle of a
\* later date d2 less than ExcludeDays days after d1.
C2_NoReuseWithinWindow ==
    \A i, j \in 1..Len(daily_puzzles) :
        LET d1 == IntOf(daily_puzzles[i].puzzle_date)
            d2 == IntOf(daily_puzzles[j].puzzle_date)
        IN  (d1 < d2 /\ d2 - d1 < ExcludeDays)
            => RowIds(daily_puzzles[i]) \cap RowIds(daily_puzzles[j]) = {}

ExactMatch(attempted, stored) ==
    /\ Len(attempted) > 0
    /\ \A i \in 1..Len(attempted) : "-" \notin Range(attempted[i])
    /\ Join(attempted, "-") = stored

\* C3: a check of a list of syllables against an existing word is answered
\* 200, with correct:true exactly when the list is, in order, the syllables
\* of the stored text (joined by hyphens it gives the stored text).
C3_CorrectIffExactMatch ==
    (/\ http.op = "check"
     /\ http.req.wordId.tag = "int"
     /\ http.req.attemptedSyllables.tag = "list"
     /\ http.req.wordId.v \in Words)
    => /\ http.status = 200
       /\ (http.body = "correct")
          <=> ExactMatch(http.req.attemptedSyllables.v,
                         Syllables(http.req.wordId.v))

C3_Witness ==
    /\ http.op = "check"
    /\ http.status = 200
    /\ http.body = "incorrect"
    /\ SameSyllablesAnyOrder(http.req.attemptedSyllables.v,
                             Split(Syllables(http.req.wordId.v), "-"))

ScoreTimes == {scores[i].time_seconds : i \in 1..Len(scores)}

CountUpTo(rows, t) ==
    Cardinality({i \in 1..Len(rows) : rows[i].time_seconds <= t})

\* C4: the leaderboard answer has min(ScoreLimit, n) entries for the n scores
\* stored for today, in non-decreasing order of time, and they are the lowest
\* times of today: for every time t, it holds as many entries of time at most
\* t as today has, up to its length; every entry is a score of today.
C4_LeaderboardTopTen ==
    (http.op = "leaderboard" /\ http.status = 200)
    => LET board == http.body
           asRows == [i \in 1..Len(board) |->
                         [nickname |-> board[i].nickname,
                          time_seconds |-> board[i].timeSeconds]]
       IN  /\ Len(board) <= ScoreLimit
           /\ Len(board) = Min(ScoreLimit, Len(TodayScores))
           /\ \A i \in 1..(Len(board) - 1) :
                 board[i].timeSeconds <= board[i + 1].timeSeconds
           /\ \A t \in ScoreTimes :
                 CountUpTo(asRows, t)
                     = Min(Len(board), CountUpTo(TodayScores, t))
           /\ \A i \in 1..Len(board) :
                 \E k \in 1..Len(TodayScores) :
                     /\ TodayScores[k].nickname = board[i].nickname
                     /\ TodayScores[k].time_seconds = board[i].timeSeconds

C4_Witness ==
    /\ http.op = "leaderboard"
    /\ Len(http.body) = ScoreLimit
    /\ Len(TodayScores) > ScoreLimit
    /\ Len(scores) > Len(TodayScores)
    /\ http.body[1].timeSeconds < http.body[ScoreLimit].timeSeconds
    /\ TodayScores[Len(TodayScores)].time_seconds
           < TodayScores[1].time_seconds

Blank(t) == \A i \in 1..Len(t) : t[i] = " "

BadScore(data) ==
    \/ data.timeSeconds.tag = "int" /\ data.timeSeconds.v < 0
    \/ data.nickname.tag = "str" /\ Blank(data.nickname.v)

\* C5: a score submission with a negative time, or with an empty or
\* all-blank nickname, is answered 400 and table scores stays as it was.
C5_BadScoreRejected ==
    [][(http'.op = "submit" /\ BadScore(http'.req))
       => (http'.status = 400 /\ scores' = scores)]_vars

C5_Witness ==
    /\ http.op = "submit"
    /\ http.status = 400
    /\ http.req.timeSeconds.tag = "int"
    /\ http.req.timeSeconds.v < 0
    /\ http.req.nickname.tag = "str"
    /\ ~Blank(http.req.nickname.v)
    /\ Len(scores) > 0

\* C6: table daily_puzzles never holds two rows of the same date.
C6_OnePuzzlePerDate ==
    \A i, j \in 1..Len(daily_puzzles) :
        daily_puzzles[i].puzzle_date = daily_puzzles[j].puzzle_date => i = j

Saved(p) == fresh[p] /\ pc[p] \in {"stamp", "details"}

C6_Witness ==
    \E p, q \in Procs :
        /\ p # q
        /\ Saved(p) /\ Saved(q)
        /\ today_date[p] = today_date[q]
        /\ word_ids[p] # word_ids[q]
        /\ Len(MatchingRows(daily_puzzles, Strftime(today_date[p]))) = 1

StoreUnchanged ==
    /\ daily_puzzles' = daily_puzzles
    /\ last_used' = last_used
    /\ scores' = scores

\* C7: when the selection of a request finds fewer than PuzzleCount eligible
\* words, the request ends there with 500, and no step of it has changed
\* the tables: no puzzle row is stored, no last_used_date is changed.
C7_TooFewWordsFails ==
    [][\A p \in Procs :
          /\ (pc[p] \in {"idle", "get"} /\ pc'[p] # pc[p]) => StoreUnchanged
          /\ (/\ pc[p] = "select" /\ pc'[p] # "select"
              /\ Cardinality(Eligible(last_used, today, ExcludeDays))
                     < PuzzleCount)
             => /\ pc'[p] = "idle"
                /\ last_resp'.status = 500
                /\ StoreUnchanged]_vars

C7_Witness ==
    /\ NoneRunning
    /\ last_resp.status = 500
    /\ last_resp.made_on = today
    /\ get_daily_puzzle(daily_puzzles, today, "ok") = NULL
    /\ Cardinality(Eligible(last_used, today, ExcludeDays)) < PuzzleCount
    /\ Cardinality(Eligible(last_used, today, ExcludeDays)) > 0

\* C8: a request during which a storage call failed is answered 500.
C8_StorageErrorIs500 ==
    /\ http.faulted => http.status = 500
    /\ last_resp.faulted => last_resp.status = 500

\* C9: a save of a selected puzzle leaves the saver's word ids as the one
\* row of its date, whatever row another request had stored there before:
\* of two requests that both missed the cache, the later save overwrites.
C9_LaterSaveOverwrites ==
    [][\A p \in Procs :
          (pc[p] = "save" /\ pc'[p] = "stamp")
          => /\ get_daily_puzzle(daily_puzzles', today_date[p], "ok")
                    = IdsToStr(word_ids[p])
             /\ Len(MatchingRows(daily_puzzles', Strftime(today_date[p])))
                    = 1]_vars

AnswerIds(p) ==
    LET word_details == get_word_details(word_ids[p], "ok")
    IN  {word_details[i].id : i \in 1..Len(word_details)}

\* both requests missed the cache, selected and saved; p is about to answer
\* with its own words although the row of the date holds those of q
C9_Witness ==
    \E p, q \in Procs :
        /\ p # q
        /\ fresh[p] /\ pc[p] = "details"
        /\ fresh[q] /\ pc[q] = "details"
        /\ today_date[p] = today_date[q]
        /\ AnswerIds(p) # AnswerIds(q)
        /\ Cardinality(AnswerIds(p)) = PuzzleCount
        /\ Cardinality(AnswerIds(q)) = PuzzleCount
        /\ get_daily_puzzle(daily_puzzles, today_date[q], "ok")
               = IdsToStr(word_ids[q])

\* C10: every word a selection run on day t returns has a NULL
\* last_used_date or one strictly before day t - ExcludeDays.
C10_SelectedStrictlyOlder ==
    [][\A p \in Procs :
          (pc[p] = "select" /\ pc'[p] = "save")
          => \A w \in Range(word_ids'[p]) :
                \/ last_used[w] = NULL
                \/ IntOf(last_used[w]) < today - ExcludeDays]_vars

\* the request of p is between saving the puzzle of a date and stamping it
Stamping(date_str) ==
    \E p \in Procs : pc[p] = "stamp" /\ Strftime(today_date[p]) = date_str

StampedNotEarlier ==
    \A i \in 1..Len(daily_puzzles) :
        LET row == daily_puzzles[i]
        IN  ~Stamping(row.puzzle_date)
            => \A w \in RowIds(row) :
                  /\ last_used[w] # NULL
                  /\ IntOf(last_used[w]) >= IntOf(row.puzzle_date)

CreatedIsStamped ==
    \A p \in Procs :
        (Completes(p) /\ fresh[p] /\ last_resp'.status = 200)
        => LET rows == MatchingRows(daily_puzzles', Strftime(today_date[p]))
           IN  /\ Len(rows) = 1
               /\ \A w \in RowIds(rows[1]) :
                     last_used'[w] = Strftime(today_date[p])

\* C11: with requests run one at a time, when a request that selected, saved
\* and stamped the puzzle of date d completes with 200, every word of the
\* stored record of d has last_used_date = d; and in every state every word
\* listed in the record of a date d has a last_used_date that is not NULL and
\* not earlier than d, except for the record the running request has saved
\* and is about to stamp.
C11_PuzzleWordsStamped ==
    []StampedNotEarlier /\ [][CreatedIsStamped]_vars

\* a created puzzle was just answered, and an older record lists a word that
\* was stamped again with a later date
C11_Witness ==
    /\ NoneRunning
    /\ last_resp.fresh /\ last_resp.status = 200
    /\ LET rows == MatchingRows(daily_puzzles, Strftime(last_resp.made_on))
       IN  /\ Len(rows) = 1
           /\ \A w \in RowIds(rows[1]) :
                 last_used[w] = Strftime(last_resp.made_on)
    /\ \E i \in 1..Len(daily_puzzles) :
          \E w \in RowIds(daily_puzzles[i]) :
              IntOf(last_used[w]) > IntOf(daily_puzzles[i].puzzle_date)

HasRecord(d) == Len(MatchingRows(daily_puzzles, Strftime(d))) > 0

Enters(p, label) == pc[p] # label /\ pc'[p] = label

\* the step of p that reads the cache and finds the record of its date
CacheHit(p) == pc[p] = "get" /\ pc'[p] # "get" /\ HasRecord(today_date[p])

\* C12: a request that finds a record for its date only reads: it goes on
\* to fetch the details of the stored ids, never selects, and none of its
\* steps changes daily_puzzles or any last_used_date. Selection is entered
\* only from a cache read that found no record, saving only after a
\* selection, stamping only after the save; daily_puzzles changes only in
\* the save step and last_used_date only in the stamp step of a request
\* that selected.
C12_CacheHitIsPureRead ==
    [][/\ \A p \in Procs :
             /\ CacheHit(p)
                => /\ pc'[p] = "details" /\ ~fresh'[p]
                   /\ Range(word_ids'[p])
                        = RowIds(MatchingRows(daily_puzzles,
                                              Strftime(today_date[p]))[1])
                   /\ StoreUnchanged
             /\ (pc[p] = "details" /\ ~fresh[p] /\ pc'[p] # "details")
                => StoreUnchanged
             /\ Enters(p, "select")
                => /\ pc[p] = "get" /\ ~HasRecord(today_date[p])
                   /\ StoreUnchanged
             /\ Enters(p, "save")
                => pc[p] = "select" /\ fresh'[p] /\ StoreUnchanged
             /\ Enters(p, "stamp")
                => /\ pc[p] = "save" /\ fresh[p]
                   /\ last_used' = last_used
       /\ daily_puzzles' # daily_puzzles
          => \E p \in Procs : pc[p] = "save" /\ pc'[p] = "stamp" /\ fresh[p]
       /\ last_used' # last_used
          => \E p \in Procs :
                pc[p] = "stamp" /\ pc'[p] = "details" /\ fresh[p]]_vars

\* p found the record that another request created on the same day and is
\* about to answer from it
C12_Witness ==
    \E p \in Procs :
        /\ pc[p] = "details" /\ ~fresh[p]
        /\ today_date[p] = StartDay
        /\ HasRecord(today_date[p])
        /\ Range(word_ids[p])
             = RowIds(MatchingRows(daily_puzzles, Strftime(StartDay))[1])
        /\ \A w \in Range(word_ids[p]) : last_used[w] = Strftime(StartDay)

\* C13: in every state, also with interleaved concurrent requests, every
\* word whose last_used_date is a date d is listed in the record stored in
\* daily_puzzles for d.
C13_StampedIsMember ==
    \A w \in Words :
        last_used[w] # NULL
        => \E i \in 1..Len(daily_puzzles) :
              /\ daily_puzzles[i].puzzle_date = last_used[w]
              /\ w \in RowIds(daily_puzzles[i])

EnoughEligible ==
    /\ NumWords >= InvCount * InvWindow
    /\ \A p \in Procs :
          pc[p] = "select"
          => Cardinality(Eligible(last_used, today, InvWindow)) >= InvCount

SelectionSucceeds ==
    \A p \in Procs :
        (pc[p] = "select" /\ pc'[p] # "select")
        => pc'[p] = "save" /\ Len(word_ids'[p]) = InvCount

\* C14: with puzzles of InvCount words, a window of InvWindow days and an
\* inventory of at least InvCount * InvWindow words, requests run one at a
\* time: whenever a request is about to select, at least InvCount words are
\* eligible, and the selection step never ends the request with the 500 of
\* too few words, on any day.
C14_InventorySuffices ==
    []EnoughEligible /\ [][SelectionSucceeds]_vars

\* a puzzle was created on every day so far, a window has passed, and the
\* request about to select finds just InvCount words eligible, those used
\* InvWindow days ago among them
C14_Witness ==
    \E p \in Procs :
        /\ pc[p] = "select"
        /\ today_date[p] = today
        /\ today >= StartDay + InvWindow
        /\ Len(daily_puzzles) = today - StartDay
        /\ Cardinality(Eligible(last_used, today, InvWindow)) = InvCount
        /\ \E w \in Eligible(last_used, today, InvWindow) :
              last_used[w] = Strftime(today - InvWindow)

====
